---- MODULE Spec2Model ----
(***************************************************************************)
(* BabyMicrowave.ino: the debounced door / run / bing controller of a toy  *)
(* microwave (ATtiny13a, MicroCore).  setup() runs once, then loop() is    *)
(* polled forever.  One step of the model is one invocation of loop().    *)
(*                                                                         *)
(* Widths on the target (avr-gcc): int is 16 bits, unsigned long and the   *)
(* millis() clock are 32 bits, `state` is one byte.  A 32-bit unsigned     *)
(* long is written <<hi, lo>>, its two 16-bit halves (value hi*2^16 + lo). *)
(***************************************************************************)
EXTENDS Integers, Naturals, Sequences, FiniteSets, TLC

VARIABLES
    clock,            \* value returned by the most recent millis() call
    stateChangeTime,  \* static unsigned long stateChangeTime
    state,            \* static byte state (bit 0 closed, 1 on, 2 was closed, 3 binging)
    onDuration,       \* static int onDuration
    lightPin,         \* level last written to LIGHT_PIN
    effect,           \* the pin / tone commands issued by the latest loop()
    tickAt,           \* millis() as read by the debounce test of the latest loop()
    raw,              \* level of BUTTON_PIN during the latest loop()
    analog,           \* the latest analogRead(TIMER_ANALOG_PIN) result (-1: never read)
    branch,           \* the branch of loop() the latest invocation took
    cycle,            \* history: how far the current cook cycle has got
    nticks            \* number of loop() invocations so far, counted up to MaxTicks

vars == <<clock, stateChangeTime, state, onDuration, lightPin, effect,
          tickAt, raw, analog, branch, cycle, nticks>>

(***************************************************************************)
(* Program constants.                                                      *)
(***************************************************************************)
TONE_FREQ_COOKING == 80
TONE_FREQ_BING == 2500
BING_DURATION_MS == 350
ON_DURATION_MIN_MS == 2000
ON_DURATION_RANGE_SECS == 18
DEBOUNCE_TIME == 100

(***************************************************************************)
(* Bounds of the model.                                                    *)
(***************************************************************************)
MaxTicks == 4     \* loop() invocations explored

(***************************************************************************)
(* Machine arithmetic.                                                     *)
(***************************************************************************)
UIntMod == 65536          \* 2^16: unsigned int, and one half of an unsigned long
IntMax == 32767           \* largest 16-bit int

\* an unsigned long holding the small value n
ULong(n) == <<0, n>>

\* unsigned long addition a + b, modulo 2^32
ULongAdd(a, b) ==
    LET lo == a[2] + b[2]
        carry == lo \div UIntMod
    IN  <<(a[1] + b[1] + carry) % UIntMod, lo % UIntMod>>

\* unsigned long subtraction a - b, modulo 2^32
ULongSub(a, b) ==
    LET borrow == IF a[2] < b[2] THEN 1 ELSE 0
    IN  <<(a[1] - b[1] - borrow + 2 * UIntMod) % UIntMod,
          (a[2] - b[2] + UIntMod) % UIntMod>>

\* unsigned long comparisons with a small non-negative int n
ULongLess(a, n) == a[1] = 0 /\ a[2] < n
ULongGreater(a, n) == a[1] > 0 \/ a[2] > n

\* conversion of an unsigned long to unsigned int: the low half
LowWord(a) == a[2]

\* conversion of an unsigned value to a 16-bit int (avr-gcc: modulo 2^16)
ToInt(x) == LET m == x % UIntMod IN IF m > IntMax THEN m - UIntMod ELSE m

(***************************************************************************)
(* The bit macros on `state`.                                              *)
(***************************************************************************)
Bit(s, b) == (s \div b) % 2
SetBit(s, b) == IF Bit(s, b) = 1 THEN s ELSE s + b
ClearBit(s, b) == IF Bit(s, b) = 1 THEN s - b ELSE s

IS_CLOSED(s) == Bit(s, 1) = 1
SET_CLOSED(s) == SetBit(s, 1)
IS_OPEN(s) == Bit(s, 1) = 0
SET_OPEN(s) == ClearBit(s, 1)

IS_ON(s) == Bit(s, 2) = 1
SET_ON(s) == SetBit(s, 2)
IS_OFF(s) == Bit(s, 2) = 0
SET_OFF(s) == ClearBit(s, 2)

WAS_CLOSED(s) == Bit(s, 4) = 1
SET_WAS_CLOSED(s) == SetBit(s, 4)
WAS_OPEN(s) == Bit(s, 4) = 0
SET_WAS_OPEN(s) == ClearBit(s, 4)

IS_BINGING(s) == Bit(s, 8) = 1
SET_BINGING(s) == SetBit(s, 8)
IS_FINISHED_BINGING(s) == Bit(s, 8) = 0
SET_FINISHED_BINGING(s) == ClearBit(s, 8)

\* a slip: the remembered door position is inverted
REMEMBER_IF_CLOSED_Inverted(s) ==
    IF IS_CLOSED(s) THEN SET_WAS_OPEN(s) ELSE SET_WAS_CLOSED(s)

\* a slip: the remembered position is never cleared
REMEMBER_IF_CLOSED_Sticky(s) == SET_WAS_CLOSED(s)

REMEMBER_IF_CLOSED(s) == IF IS_CLOSED(s) THEN SET_WAS_CLOSED(s) ELSE SET_WAS_OPEN(s)

(***************************************************************************)
(* Inputs.                                                                 *)
(***************************************************************************)
\* digitalRead(BUTTON_PIN): LOW when the leaf switch is pressed (door closed)
PinLevels == {"LOW", "HIGH"}

\* analogRead(TIMER_ANALOG_PIN): 10-bit ADC; 1023 is the pulled-up, unconnected pin
AnalogReads == {0, 1023}

\* ms between the end of one loop() and the debounce test of the next
TickGaps == {ULong(0), ULong(99), ULong(100), ULong(351), ULong(2019),
             ULong(20433), ULong(40000), <<65535, 63240>>}

\* ms the clock advances between the millis() of the debounce test (line 89) and
\* the millis() of the branch taken (line 105 or 169) in one loop()
Lags == {0, 1}

(***************************************************************************)
(* Commands a loop() invocation can issue.                                 *)
(***************************************************************************)
\* light: digitalWrite(LIGHT_PIN, ..); tone: tone()/noTone() on SPEAKER_PIN with
\* its frequency and duration; speaker: digitalWrite(SPEAKER_PIN, ..)
NoEffect == [light |-> "none", tone |-> "none", freq |-> 0, dur |-> 0, speaker |-> "none"]

\* lines 114-120: light stays on, any tone is stopped, speaker pin forced low
OpenedEffect ==
    [light |-> "HIGH", tone |-> "noTone", freq |-> 0, dur |-> 0, speaker |-> "LOW"]

\* lines 130-133: light off, the bing is queued for BING_DURATION_MS
BingEffect ==
    [light |-> "LOW", tone |-> "tone", freq |-> TONE_FREQ_BING,
     dur |-> BING_DURATION_MS, speaker |-> "none"]

\* lines 170-173: light on, the cooking tone is queued for the cook duration
CookingEffect(d) ==
    [light |-> "HIGH", tone |-> "tone", freq |-> TONE_FREQ_COOKING,
     dur |-> d, speaker |-> "none"]

(***************************************************************************)
(* The pieces of loop().                                                   *)
(***************************************************************************)
\* a slip: the clock itself, not the time since stateChangeTime, is compared
Debounced_Absolute(t, sct) == ULongLess(t, DEBOUNCE_TIME)

\* a slip: <= for <, the tick one debounce interval after the change is still gated
Debounced_Inclusive(t, sct) == ULongLess(ULongSub(t, sct), DEBOUNCE_TIME + 1)

\* line 89: millis() - stateChangeTime < DEBOUNCE_TIME, in unsigned long
Debounced(t, sct) == ULongLess(ULongSub(t, sct), DEBOUNCE_TIME)

\* a slip: the polarity of the switch is inverted
SampleDoor_Inverted(s, r) == IF r = "HIGH" THEN SET_CLOSED(s) ELSE SET_OPEN(s)

\* lines 94-98: LOW means the switch is pressed, the door closed
SampleDoor(s, r) == IF r = "LOW" THEN SET_CLOSED(s) ELSE SET_OPEN(s)

\* line 105: int timeSinceClose = millis() - stateChangeTime;
\* the unsigned long difference is narrowed to a 16-bit int
timeSinceClose(t, sct) == ToInt(LowWord(ULongSub(t, sct)))

\* a slip: the bing flag survives the opening
DoorOpened_KeepsBing(s) == SET_OFF(SET_OPEN(s))

\* a slip: the running flag survives the opening
DoorOpened_KeepsOn(s) == SET_FINISHED_BINGING(SET_OPEN(s))

\* lines 110-112
DoorOpened(s) == SET_FINISHED_BINGING(SET_OFF(SET_OPEN(s)))

\* a slip: the expiry test forgets IS_ON()
TimerRanOut_IgnoresOn(s, tsc, d) == tsc > d

\* line 125
TimerRanOut(s, tsc, d) == IS_ON(s) /\ tsc > d

\* a slip: the running flag survives the expiry
StartBing_StillOn(s) == SET_BINGING(s)

\* lines 127-128
StartBing(s) == SET_BINGING(SET_OFF(s))

\* a slip: the bing is taken to be over only while the timer is on
BingOver_WhileOn(s, tsc, d) == IS_ON(s) /\ IS_BINGING(s) /\ tsc > d + BING_DURATION_MS

\* line 136
BingOver(s, tsc, d) == IS_OFF(s) /\ IS_BINGING(s) /\ tsc > d + BING_DURATION_MS

\* lines 148-149
DoorClosed(s) == SET_ON(SET_CLOSED(s))

\* a slip: the ADC sample is used without the 1024 - .. inversion
CookDuration_NotInverted(a) ==
    LET scaled == (a * ON_DURATION_RANGE_SECS) % UIntMod
    IN  ToInt((ON_DURATION_MIN_MS + scaled) % UIntMod)

\* a slip: the range is scaled twice, which no longer fits an int
CookDuration_WideRange(a) ==
    LET reading == (1024 - a + UIntMod) % UIntMod
        scaled == (reading * 2 * ON_DURATION_RANGE_SECS) % UIntMod
    IN  ToInt((ON_DURATION_MIN_MS + scaled) % UIntMod)

\* lines 165-166: unsigned int reading = 1024 - analogRead(..);
\* onDuration = ON_DURATION_MIN_MS + reading * ON_DURATION_RANGE_SECS;
\* computed in unsigned int, stored in an int
CookDuration(a) ==
    LET reading == (1024 - a + UIntMod) % UIntMod
        scaled == (reading * ON_DURATION_RANGE_SECS) % UIntMod
    IN  ToInt((ON_DURATION_MIN_MS + scaled) % UIntMod)

(***************************************************************************)
(* setup(): the door is assumed closed, the microwave off and not binging. *)
(***************************************************************************)
Init ==
    /\ clock = ULong(0)
    /\ stateChangeTime = ULong(0)
    /\ state = SET_FINISHED_BINGING(SET_OFF(SET_CLOSED(0)))
    /\ onDuration = ON_DURATION_MIN_MS
    /\ lightPin = "LOW"
    /\ effect = [NoEffect EXCEPT !.light = "LOW"]
    /\ tickAt = ULong(0)
    /\ raw = "LOW"
    /\ analog = -1
    /\ branch = "setup"
    /\ cycle = "boot"
    /\ nticks = 0

(***************************************************************************)
(* loop(): one polling tick.  gap is the time since the previous millis()  *)
(* read and r the level of the door switch pin.  The branches that read    *)
(* the clock again (line 105, line 169) see it lag ms later; the closing   *)
(* branch samples the potentiometer, drawing the ADC result from samples.  *)
(* cycle records the history of the cook cycle: "cooking" since the latest *)
(* closing, "binged" once its bing was issued, "opened" once the door was  *)
(* opened, "boot" before any of these.                                     *)
(***************************************************************************)
tick(gap, r, samples) ==
    LET t1 == ULongAdd(clock, gap)
        s1 == SampleDoor(REMEMBER_IF_CLOSED(state), r)
    IN
    /\ nticks' = IF nticks < MaxTicks THEN nticks + 1 ELSE nticks
    /\ tickAt' = t1
    /\ raw' = r
    /\ IF Debounced(t1, stateChangeTime)
       THEN /\ branch' = "debounce"
            /\ clock' = t1
            /\ effect' = NoEffect
            /\ UNCHANGED <<stateChangeTime, state, onDuration, lightPin, analog, cycle>>
       ELSE IF WAS_CLOSED(s1)
       THEN \E lag \in Lags :
            LET t2 == ULongAdd(t1, ULong(lag))
                tsc == timeSinceClose(t2, stateChangeTime)
            IN
            /\ clock' = t2
            /\ UNCHANGED <<stateChangeTime, onDuration, analog>>
            /\ IF IS_OPEN(s1)
               THEN /\ branch' = "opened"
                    /\ cycle' = "opened"
                    /\ state' = DoorOpened(s1)
                    /\ lightPin' = "HIGH"
                    /\ effect' = OpenedEffect
               ELSE IF TimerRanOut(s1, tsc, onDuration)
               THEN /\ branch' = "timer"
                    /\ cycle' = "binged"
                    /\ state' = StartBing(s1)
                    /\ lightPin' = "LOW"
                    /\ effect' = BingEffect
               ELSE IF BingOver(s1, tsc, onDuration)
               THEN /\ branch' = "bingOver"
                    /\ state' = SET_FINISHED_BINGING(s1)
                    /\ effect' = NoEffect
                    /\ UNCHANGED <<lightPin, cycle>>
               ELSE /\ branch' = "closedIdle"
                    /\ state' = s1
                    /\ effect' = NoEffect
                    /\ UNCHANGED <<lightPin, cycle>>
       ELSE IF WAS_OPEN(s1) /\ IS_CLOSED(s1)
       THEN \E a \in samples, lag \in Lags :
            LET t2 == ULongAdd(t1, ULong(lag))
            IN
            /\ branch' = "closed"
            /\ cycle' = "cooking"
            /\ state' = DoorClosed(s1)
            /\ analog' = a
            /\ onDuration' = CookDuration(a)
            /\ clock' = t2
            /\ stateChangeTime' = t2
            /\ lightPin' = "HIGH"
            /\ effect' = CookingEffect(CookDuration(a))
       ELSE /\ branch' = "openIdle"
            /\ state' = s1
            /\ clock' = t1
            /\ effect' = NoEffect
            /\ UNCHANGED <<stateChangeTime, onDuration, lightPin, analog, cycle>>

\* loop() at any of the explored gaps, for the first MaxTicks invocations
loop(gap, r) == nticks < MaxTicks /\ tick(gap, r, AnalogReads)

Next == \E gap \in TickGaps, r \in PinLevels : loop(gap, r)

Spec == Init /\ [][Next]_vars

(***************************************************************************)
(* The duration computation over the whole range of the ADC: the first     *)
(* DurTicks invocations of loop(), one debounce interval apart, with every *)
(* value analogRead() can return on a closing.                             *)
(***************************************************************************)
DurTicks == 2

AdcRange == 0 .. 1023

DurNext ==
    /\ nticks < DurTicks
    /\ \E r \in PinLevels : tick(ULong(DEBOUNCE_TIME), r, AdcRange)

DurSpec == Init /\ [][DurNext]_vars

(***************************************************************************)
(* Fair polling.  The Arduino core calls loop() again as soon as it        *)
(* returns, and nothing in loop() blocks (tone() only starts the timer),   *)
(* so loop() keeps being invoked: weak fairness of the poll.  The gaps     *)
(* between polls are over-approximated by a debounce interval and by two   *)
(* bing durations.  The switch moves during the first LiveMoves polls and  *)
(* then stays where it is; time is followed up to LiveHorizon ms.          *)
(***************************************************************************)
LiveHorizon == 4000

LiveMoves == 3

PollGaps == {ULong(DEBOUNCE_TIME), ULong(2 * BING_DURATION_MS)}

poll(gap) ==
    /\ ULongLess(ULongAdd(clock, gap), LiveHorizon + 1)
    /\ \E r \in PinLevels :
          /\ nticks >= LiveMoves => r = raw
          /\ tick(gap, r, AnalogReads)

LiveNext == \E gap \in PollGaps : poll(gap)

LiveSpec == Init /\ [][LiveNext]_vars /\ WF_vars(LiveNext)

(***************************************************************************)
(* Vocabulary of the properties, written from the arithmetic directly.     *)
(***************************************************************************)
\* this step's loop() returns at the debounce test: the unsigned difference
\* between its first millis() and the stateChangeTime it starts with is < 100
GatedStep ==
    LET d == ULongSub(tickAt', stateChangeTime)
    IN  d[1] = 0 /\ d[2] < DEBOUNCE_TIME

running == (state \div 2) % 2 = 1
binging == (state \div 8) % 2 = 1
doorClosed == state % 2 = 1
wasClosed == (state \div 4) % 2 = 1

\* the step recognizes a closing: not gated, door open before it, switch pressed now
ClosingStep == ~GatedStep /\ ~doorClosed /\ raw' = "LOW"

\* the step recognizes an opening: not gated, door closed before it, switch released now
OpeningStep == ~GatedStep /\ doorClosed /\ raw' = "HIGH"

\* true elapsed time since the recorded close, as of this step's last millis(),
\* exceeds n (unsigned 32-bit difference, never narrowed)
ElapsedExceeds(n) ==
    LET d == ULongSub(clock', stateChangeTime)
    IN  d[1] > 0 \/ d[2] > n

\* the door, the mode flags and the outputs are as the step found them
Frozen ==
    /\ UNCHANGED <<state, stateChangeTime, onDuration, lightPin>>
    /\ effect' = NoEffect

(***************************************************************************)
(* C1.  running and binging are never both true, in any reachable state.   *)
(***************************************************************************)
C1_NeverRunningAndBinging == ~(running /\ binging)

\* the timer has run out: the bing is on, running has been cleared
C1_Witness == branch = "timer" /\ binging

(***************************************************************************)
(* C2.  Debounce gate: a loop() that starts less than DEBOUNCE_TIME after  *)
(* stateChangeTime changes none of doorClosed, wasClosed, running, binging,*)
(* stateChangeTime, onDuration, and issues no light or tone command,       *)
(* whatever the door switch and the potentiometer read.                    *)
(***************************************************************************)
C2_DebounceGateIsNoOp == [][GatedStep => Frozen]_vars

\* a gated tick during cooking with the switch released: the opening is ignored
C2_Witness == branch = "debounce" /\ running /\ raw = "HIGH" /\ doorClosed

(***************************************************************************)
(* C3.  Two recognized door changes (an opening or a closing) are never    *)
(* less than DEBOUNCE_TIME apart.                                          *)
(***************************************************************************)
C3_DoorChangesDebounceApart ==
    [][(branch \in {"opened", "closed"} /\ branch' \in {"opened", "closed"})
        => LET d == ULongSub(tickAt', tickAt)
           IN  d[1] > 0 \/ d[2] >= DEBOUNCE_TIME]_vars

(***************************************************************************)
(* C4.  Closing the door: a non-gated tick that finds the door open and    *)
(* reads the switch pressed recomputes onDuration from the potentiometer,  *)
(* sets running, records stateChangeTime := now, switches the light on and *)
(* starts the cooking tone for the new onDuration.                         *)
(***************************************************************************)
C4_ClosingStartsCooking ==
    [][ClosingStep =>
        /\ onDuration' = ON_DURATION_MIN_MS + (1024 - analog') * ON_DURATION_RANGE_SECS
        /\ running'
        /\ doorClosed'
        /\ stateChangeTime' = clock'
        /\ lightPin' = "HIGH"
        /\ effect' = [light |-> "HIGH", tone |-> "tone", freq |-> TONE_FREQ_COOKING,
                      dur |-> onDuration', speaker |-> "none"]]_vars

\* a second closing, with the potentiometer moved since the first
C4_Witness == branch = "closed" /\ nticks = 4 /\ analog = 0 /\ onDuration = 20432

(***************************************************************************)
(* C5.  Opening the door: a non-gated tick that finds the door closed and  *)
(* reads the switch released clears running and binging, leaves the light  *)
(* on and stops the tone, whatever the elapsed time and onDuration.        *)
(***************************************************************************)
C5_OpeningStopsCooking ==
    [][OpeningStep =>
        /\ ~running' /\ ~binging' /\ ~doorClosed'
        /\ lightPin' = "HIGH"
        /\ effect'.light = "HIGH"
        /\ effect'.tone = "noTone"]_vars

\* the door is opened on the tick after the one that closed it: cooking was running
C5_Witness == branch = "opened" /\ nticks = 3 /\ analog = 0

(***************************************************************************)
(* C6.  Timer expiry: a non-gated tick with the door closed before and     *)
(* now, running true and elapsed (now - close time) > onDuration clears    *)
(* running, sets binging, switches the light off and starts the bing; with *)
(* elapsed <= onDuration it makes no transition and emits nothing.         *)
(***************************************************************************)
C6_TimerExpiry ==
    [][(~GatedStep /\ doorClosed /\ raw' = "LOW" /\ running) =>
        IF ElapsedExceeds(onDuration)
        THEN /\ ~running' /\ binging'
             /\ lightPin' = "LOW"
             /\ effect' = [light |-> "LOW", tone |-> "tone", freq |-> TONE_FREQ_BING,
                           dur |-> BING_DURATION_MS, speaker |-> "none"]
        ELSE /\ running' /\ ~binging'
             /\ effect' = NoEffect]_vars

(***************************************************************************)
(* C7.  Minimum cook duration: closing the door with no potentiometer      *)
(* connected (the timer input pulled high, analogRead = 1023) gives        *)
(* onDuration = ON_DURATION_MIN_MS exactly.                                *)
(***************************************************************************)
C7_MinimumCookDuration ==
    (branch = "closed" /\ analog = 1023) => onDuration = ON_DURATION_MIN_MS

(***************************************************************************)
(* C8.  Wraparound-safe elapsed time: the elapsed time compared against    *)
(* onDuration is the unsigned difference now - stateChangeTime, never      *)
(* negative, so a tick with running true and the door still closed expires *)
(* the timer exactly when the true elapsed time exceeds onDuration.        *)
(***************************************************************************)
C8_ElapsedIsUnsignedDifference ==
    [][(~GatedStep /\ doorClosed /\ raw' = "LOW" /\ running) =>
        /\ timeSinceClose(clock', stateChangeTime) >= 0
        /\ timeSinceClose(clock', stateChangeTime) = ULongSub(clock', stateChangeTime)[2]
        /\ ULongSub(clock', stateChangeTime)[1] = 0
        /\ binging' <=> ElapsedExceeds(onDuration)]_vars

(***************************************************************************)
(* C9.  Idempotence: after a tick that recognized a                        *)
(* transition (close, open, timer expiry, bing finished), a tick with the  *)
(* same inputs (same switch level, same timestamp) emits nothing and       *)
(* changes neither running nor binging.                                    *)
(***************************************************************************)
RepeatStep ==
    /\ branch \in {"closed", "opened", "timer", "bingOver"}
    /\ clock' = clock
    /\ raw' = raw

C9_RepeatChangesNothing ==
    [][RepeatStep =>
        /\ effect' = NoEffect
        /\ running' = running
        /\ binging' = binging]_vars

(***************************************************************************)
(* C10.  onDuration is written only by a tick that recognizes a closing;   *)
(* every other tick leaves it unchanged.                                   *)
(***************************************************************************)
C10_OnDurationWrittenOnlyOnClosing == [][~ClosingStep => onDuration' = onDuration]_vars

\* the timer of a long cook runs out: onDuration is still what the closing computed
C10_Witness == branch = "timer" /\ onDuration = 20432 /\ analog = 0

(***************************************************************************)
(* C11.  binging stays true for at least BING_DURATION_MS after the tick   *)
(* that issued the bing while the door stays closed: the tick that clears  *)
(* binging by the bing-finished case comes at least BING_DURATION_MS after *)
(* the tick that issued the bing, whatever the spacing of the ticks.       *)
(***************************************************************************)
C11_BingingLastsBingDuration ==
    [][(branch = "timer" /\ branch' = "bingOver")
        => LET d == ULongSub(tickAt', clock)
           IN  d[1] > 0 \/ d[2] >= BING_DURATION_MS]_vars

(***************************************************************************)
(* C13.  The bing is issued at most once per cook cycle: a tick issues the *)
(* bing tone only in a cycle started by a recognized closing in which no   *)
(* bing was issued yet and the door was not opened.                        *)
(***************************************************************************)
BingIssuedStep == effect'.tone = "tone" /\ effect'.freq = TONE_FREQ_BING

C13_BingOncePerCycle == [][BingIssuedStep => cycle = "cooking"]_vars

\* the one bing of a cycle has been issued
C13_Witness == branch = "timer" /\ cycle = "binged" /\ effect.freq = TONE_FREQ_BING

(***************************************************************************)
(* C14.  Boot correction: setup() leaves the door assumed closed, the      *)
(* microwave off and not binging, the light off.  While the door has never *)
(* been seen open, the first tick at or after one debounce interval from   *)
(* boot that reads the switch released takes the door-opened transition:   *)
(* doorClosed, running and binging false, light on, tone stopped, and no   *)
(* cooking tone started.                                                   *)
(***************************************************************************)
\* nothing but setup() has written the light and the potentiometer was never
\* sampled: no opening, closing or expiry has been recognized since boot
AsBooted == lightPin = "LOW" /\ analog = -1 /\ doorClosed /\ ~running /\ ~binging

C14_BootCorrection ==
    /\ AsBooted /\ effect.tone = "none" /\ stateChangeTime = clock
    /\ [][(AsBooted /\ ~GatedStep /\ raw' = "HIGH") =>
            /\ ~doorClosed' /\ ~running' /\ ~binging'
            /\ lightPin' = "HIGH"
            /\ effect'.light = "HIGH"
            /\ effect'.tone = "noTone"
            /\ onDuration' = ON_DURATION_MIN_MS]_vars

\* the door was open at boot: the tick exactly one debounce interval later corrects it
C14_Witness ==
    /\ branch = "opened" /\ nticks = 1 /\ tickAt = <<0, DEBOUNCE_TIME>>
    /\ stateChangeTime = <<0, 0>> /\ ~doorClosed

(***************************************************************************)
(* C16.  Recognition delay: a door transition is recognized (its           *)
(* running/binging change and light/tone effect produced) only one tick    *)
(* after the tick that first samples the switch as changed, so the tick    *)
(* that first samples the change produces no effect itself.                *)
(***************************************************************************)
\* this step's loop() passes the debounce test and reads the switch at a level
\* other than the door position the previous loop() left in doorClosed
FirstSampledChange == ~GatedStep /\ (doorClosed <=> raw' = "HIGH")

C16_RecognizedOneTickLater == [][FirstSampledChange => effect' = NoEffect]_vars

(***************************************************************************)
(* C16, amended.  A door transition is recognized in the very tick that    *)
(* first samples the switch as changed (the first tick past the debounce   *)
(* gate): that tick switches the light on and issues noTone (opening) or   *)
(* the cooking tone (closing); there is no extra tick of delay.            *)
(***************************************************************************)
C16_RecognizedInSamplingTick ==
    [][FirstSampledChange =>
        /\ effect'.light = "HIGH"
        /\ IF raw' = "HIGH"
           THEN effect'.tone = "noTone" /\ ~running' /\ ~binging'
           ELSE effect'.tone = "tone" /\ effect'.freq = TONE_FREQ_COOKING /\ running'
        /\ wasClosed' = doorClosed
        /\ doorClosed' = ~doorClosed]_vars

\* the first tick after boot read the switch released and recognized the opening at once
C16_Witness == nticks = 1 /\ raw = "HIGH" /\ branch = "opened" /\ effect.tone = "noTone"

(***************************************************************************)
(* C17.  After every non-gated tick wasClosed is the value doorClosed had  *)
(* just before the tick and doorClosed is the switch level sampled in the  *)
(* tick; a gated tick changes neither.                                     *)
(***************************************************************************)
C17_WasClosedOneTickStale ==
    [][IF GatedStep
       THEN wasClosed' = wasClosed /\ doorClosed' = doorClosed
       ELSE wasClosed' = doorClosed /\ (doorClosed' <=> raw' = "LOW")]_vars

\* the door was open for two ticks and is now closed: wasClosed still says open
C17_Witness == branch = "closed" /\ ~wasClosed /\ doorClosed /\ nticks = 3

(***************************************************************************)
(* C18.  Whenever doorClosed is false, running and binging are false and   *)
(* the light is on.                                                        *)
(***************************************************************************)
C18_OpenDoorIsIdleAndLit == ~doorClosed => (~running /\ ~binging /\ lightPin = "HIGH")

\* the door is open again on the fourth tick, after a closing in between
C18_Witness == branch = "opened" /\ nticks = 4 /\ analog = 1023 /\ ~doorClosed

(***************************************************************************)
(* C19.  The light tracks the mode: it is on whenever running is true and  *)
(* off whenever binging is true.                                           *)
(***************************************************************************)
C19_LightTracksMode ==
    /\ running => lightPin = "HIGH"
    /\ binging => lightPin = "LOW"

\* the bing is sounding behind a closed door: the light is off
C19_Witness == binging /\ doorClosed /\ lightPin = "LOW" /\ cycle = "binged"

(***************************************************************************)
(* C15.  Maximum cook duration, as claimed: with the potentiometer at full *)
(* scale (a conversion value of 1023, or the 1024 the subtraction yields   *)
(* at the end stop) the onDuration computed at closing differs from        *)
(* ON_DURATION_MIN_MS + 1000 * ON_DURATION_RANGE_SECS = 20000 ms by at     *)
(* most one potentiometer step (ON_DURATION_RANGE_SECS ms).                *)
(***************************************************************************)
FullRange == ON_DURATION_MIN_MS + 1000 * ON_DURATION_RANGE_SECS

FullScale == branch = "closed" /\ analog \in {0, 1}

C15_MaximumWithinOneStep ==
    FullScale =>
        /\ onDuration - FullRange <= ON_DURATION_RANGE_SECS
        /\ FullRange - onDuration <= ON_DURATION_RANGE_SECS

(***************************************************************************)
(* C15, as the code computes it: at full scale onDuration is               *)
(* ON_DURATION_MIN_MS plus ON_DURATION_RANGE_SECS ms per ADC count, for    *)
(* the 1023 or 1024 counts of 1024 - analogRead(): 414 or 432 ms above     *)
(* 20000 ms, that is 23 to 24 ms more per second of range.                 *)
(***************************************************************************)
C15_MaximumIsMillisecondsPerCount ==
    FullScale =>
        /\ onDuration = ON_DURATION_MIN_MS + (1024 - analog) * ON_DURATION_RANGE_SECS
        /\ onDuration - FullRange >= 23 * ON_DURATION_RANGE_SECS
        /\ onDuration - FullRange <= 24 * ON_DURATION_RANGE_SECS

\* the door closed with the ADC returning 1: reading is 1023
C15_Witness == branch = "closed" /\ analog = 1 /\ onDuration = 20414 /\ running

(***************************************************************************)
(* C20.  For every analog reading in 0..1023 the onDuration computed at    *)
(* closing is the exact value of ON_DURATION_MIN_MS + reading *            *)
(* ON_DURATION_RANGE_SECS (nothing wrapped), it and the bing-finished      *)
(* threshold onDuration + BING_DURATION_MS are positive 16-bit ints, and   *)
(* onDuration is never below ON_DURATION_MIN_MS.                           *)
(***************************************************************************)
C20_DurationFitsInt ==
    /\ onDuration >= ON_DURATION_MIN_MS
    /\ onDuration <= IntMax
    /\ onDuration + BING_DURATION_MS <= IntMax
    /\ branch = "closed" =>
            onDuration = ON_DURATION_MIN_MS + (1024 - analog) * ON_DURATION_RANGE_SECS

\* the longest duration there is: the door closed with the ADC returning 0
C20_Witness == branch = "closed" /\ analog = 0 /\ onDuration = 20432

(***************************************************************************)
(* C12.  The cook cycle completes: once a closing has been recognized and  *)
(* while loop() keeps polling with the door closed, the timer eventually   *)
(* expires (running false, bing issued, light off), after that binging     *)
(* eventually becomes false, and the idle machine behind the closed door   *)
(* emits nothing more while the switch stays pressed.  Room says that the  *)
(* explored stretch of time reaches past the end of the bing.              *)
(***************************************************************************)
PollSlack == DEBOUNCE_TIME + 2 * BING_DURATION_MS + 1

Room ==
    /\ stateChangeTime[1] = 0
    /\ stateChangeTime[2] + onDuration + BING_DURATION_MS + PollSlack <= LiveHorizon

TimerExpired ==
    /\ branch = "timer"
    /\ ~running /\ binging /\ doorClosed
    /\ lightPin = "LOW"
    /\ effect = BingEffect

IdleClosed == doorClosed /\ ~running /\ ~binging

====
